---- MODULE Spec2Model ----
(***************************************************************************)
(* Model of poster_processor.py: the poster acquisition / caching /        *)
(* compositing / restore pipeline and the Plex refresh notifier.           *)
(*                                                                         *)
(* The filesystem (cache and final poster of every directory under the     *)
(* media root) persists from one run of the script to the next; everything *)
(* else is re-read from the environment when a run is launched.            *)
(***************************************************************************)
EXTENDS Integers, Sequences, FiniteSets

(* ------------------------------ bounds -------------------------------- *)

\* number of directories under the media root (rglob order = 1..NumDirs)
NumDirs == 2

\* longest PLEX_LIBRARY_ID list that is enumerated
MaxTargets == 2

Dirs == 1..NumDirs

\* directory names that occur in the tree
Names == {"Movie (2020) [tmdbid-603]", "Extras", "Original"}

\* distinct poster images the catalog image endpoint may serve
Contents == {"imgA", "imgB"}

\* vote_average values served by the catalog, in hundredths (7.45, 8.1)
VoteAverages == {745, 810}

\* vote_count values served by the catalog, on both sides of the threshold
VoteCounts == {499, 500}

\* section ids that may appear in PLEX_LIBRARY_ID
TargetIds == {"1", "2"}

(* ------------------------- program constants -------------------------- *)

MIN_VOTE_COUNT == 500

ORIGINAL_FOLDER_NAME == "original"

CACHE_QUALITY == 90

FINAL_QUALITY == 95

(* ------------------------------- files -------------------------------- *)

\* a path at which no file exists
Absent == [kind |-> "absent", q |-> 0, c |-> "", layers |-> <<>>]

\* a file that a failed write left truncated or incomplete
Partial == [kind |-> "partial", q |-> 0, c |-> "", layers |-> <<>>]

\* JPEG encoding of an image at quality q
Jpeg(img, q) == [kind |-> "jpeg", q |-> q, c |-> img.c, layers |-> img.layers]

\* Path.exists() / Path.is_file()
Exists(f) == f.kind # "absent"

\* the absence of a working image
NoImage == [c |-> "", layers |-> <<>>]

\* Image.open(path).convert("RGBA"): the decoded picture of a JPEG file
Decode(f) == [c |-> f.c, layers |-> f.layers]

\* the static overlay image, as a layer of a working image
StaticLayer == [asset |-> "static", percent |-> 0]

\* the badge image r<percent>.png, as a layer of a working image
Badge(percent) == [asset |-> "badge", percent |-> percent]

\* base_img.alpha_composite(overlay)
AlphaComposite(img, layer) == [img EXCEPT !.layers = Append(@, layer)]

(* --------------------------- pure functions --------------------------- *)

\* str.lower() on the names of the tree
Lower(n) == IF n = "Original" THEN "original"
            ELSE IF n = "Movie (2020) [tmdbid-603]" THEN "movie (2020) [tmdbid-603]"
            ELSE "extras"

\* TMDB_ID_REGEX.search(name): the parsed id, 0 when there is no match
TmdbIdOf(n) == IF n = "Movie (2020) [tmdbid-603]" THEN 603 ELSE 0

\* movie_path.is_dir() and movie_path.name.lower() != ORIGINAL_FOLDER_NAME
IsCandidate(n) == Lower(n) # ORIGINAL_FOLDER_NAME

Max(a, b) == IF a > b THEN a ELSE b

Min(a, b) == IF a < b THEN a ELSE b

\* int(round(vote_average * 10)) with vote_average given in hundredths:
\* Python rounds halves to the even neighbour
RoundTimes10(h) ==
    LET lo == h \div 10
        r  == h % 10
    IN  IF r < 5 THEN lo
        ELSE IF r > 5 THEN lo + 1
        ELSE IF lo % 2 = 0 THEN lo ELSE lo + 1

RatingPercent(vote_average) == Max(0, Min(100, RoundTimes10(vote_average)))

(* --------------------------- configuration ---------------------------- *)

\* the PLEX_LIBRARY_ID lists that are enumerated
TargetLists == UNION {[1..n -> TargetIds] : n \in 0..MaxTargets}

\* every environment the script can be started in
AllConfigs ==
    [restore : BOOLEAN, static : BOOLEAN, tmdb : BOOLEAN, imdb : BOOLEAN,
     plexRefresh : BOOLEAN, plexIp : BOOLEAN, plexPort : BOOLEAN,
     plexToken : BOOLEAN, plexIds : TargetLists]

\* the refresh settings of a setup that never refreshes
PlexSimple(c) ==
    /\ ~c.plexRefresh
    /\ c.plexIp /\ c.plexPort /\ c.plexToken
    /\ c.plexIds = <<"1", "2">>

\* no overlay layer enabled
OverlaysOff(c) == ~c.static /\ ~c.tmdb /\ ~c.imdb

\* a tree with one movie folder first and unrelated directories after it
PlainTree == [d \in Dirs |-> IF d = 1 THEN "Movie (2020) [tmdbid-603]"
                                     ELSE "Extras"]

\* the worlds that are explored: every tree with every overlay combination
\* and no refresh, and the plain tree with the overlays off and every
\* refresh setting
Worlds ==
    {w \in [names : [Dirs -> Names], cfg : AllConfigs] :
        /\ ~w.cfg.restore
        /\ \/ PlexSimple(w.cfg)
           \/ OverlaysOff(w.cfg) /\ w.names = PlainTree}

(* ------------------------------- state -------------------------------- *)

VARIABLES
    names,          \* names[d]: name of directory d of the tree
    cache,          \* cache[d]: <d>/original/original_poster.jpg
    final,          \* final[d]: <d>/poster.jpg
    cfg,            \* module-level configuration of the current run
    fontPresent,    \* DejaVuSans-Bold.ttf is a file
    pc,             \* position of the current run
    idx,            \* directories yielded so far by rglob
    work,           \* base_img of process_movie_folder
    meta,           \* data fetched by the rating layer for this folder
    failed,         \* layers whose application raised for this folder
    saveState,      \* step 6 for this folder: "none", "saved" or "failed"
    found_movies,   \* main's counter
    found_restores, \* restore_posters' counter
    fontChecks,     \* times the font file was tested in this run
    reqs,           \* network requests issued by this run
    restored,       \* directories copied by this run's restore_posters
    copyFailed,     \* directories whose copy raised in this run
    exitStatus      \* how the last run ended

vars == <<names, cache, final, cfg, fontPresent, pc, idx, work, meta, failed,
          saveState, found_movies, found_restores, fontChecks, reqs, restored,
          copyFailed, exitStatus>>

fs == <<cache, final>>

folder == <<work, meta, failed, saveState>>

counters == <<found_movies, found_restores, fontChecks, restored, copyFailed>>

NoMeta == [status |-> "none", vote_average |-> 0, vote_count |-> 0]

\* reqs.catalog / reqs.image: the run has requested the catalog detail /
\* image endpoint; reqs.plex: the refresh requests in the order issued, each
\* with the section id and whether the request succeeded
NoReqs == [catalog |-> FALSE, image |-> FALSE, plex |-> <<>>]

Init ==
    /\ \E w \in Worlds : names = w.names /\ cfg = w.cfg
    /\ cache \in [Dirs -> {Absent, Jpeg([c |-> "imgA", layers |-> <<>>],
                                        CACHE_QUALITY)}]
    /\ \A d \in Dirs : TmdbIdOf(names[d]) # 0 => cache[d] = Absent
    /\ final = [d \in Dirs |-> Absent]
    /\ fontPresent \in (IF cfg.imdb THEN BOOLEAN ELSE {TRUE})
    /\ pc = "exited"
    /\ idx = 0
    /\ work = NoImage
    /\ meta = NoMeta
    /\ failed = {}
    /\ saveState = "none"
    /\ found_movies = 0
    /\ found_restores = 0
    /\ fontChecks = 0
    /\ reqs = NoReqs
    /\ restored = {}
    /\ copyFailed = {}
    /\ exitStatus = "none"

\* sys.exit / return from main / an exception nobody catches
Exit(status) == pc' = "exited" /\ exitStatus' = status

(* ------------------------------ start-up ------------------------------ *)

\* python poster_processor.py: the module-level configuration is read and
\* the API key is required.  RESTORE_MODE is the setting that differs from
\* one run to the next.
Launch ==
    /\ pc = "exited"
    /\ \E restore \in BOOLEAN, apiKey \in BOOLEAN :
        /\ cfg' = [cfg EXCEPT !.restore = restore]
        /\ IF apiKey THEN pc' = "main" /\ exitStatus' = "running"
                     ELSE Exit("fatal_key")
    /\ idx' = 0
    /\ work' = NoImage /\ meta' = NoMeta /\ failed' = {} /\ saveState' = "none"
    /\ found_movies' = 0 /\ found_restores' = 0 /\ fontChecks' = 0
    /\ reqs' = NoReqs /\ restored' = {} /\ copyFailed' = {}
    /\ UNCHANGED <<names, fs, fontPresent>>

\* main(): the media root must be a directory; then restore or scan
Main ==
    /\ pc = "main"
    /\ \E rootIsDir \in BOOLEAN :
        IF ~rootIsDir THEN Exit("fatal_root")
        ELSE /\ pc' = IF cfg.restore THEN "restore" ELSE "scan"
             /\ UNCHANGED exitStatus
    /\ UNCHANGED <<names, fs, cfg, fontPresent, idx, folder, counters, reqs>>

(* -------------------------------- scan -------------------------------- *)

\* the directory matches: it is not a cache folder and carries an id tag
Matches(n) == IsCandidate(n) /\ TmdbIdOf(n) # 0

\* main(), one iteration of the scan loop up to the call of
\* process_movie_folder: the font is tested for every matched folder
ScanNext ==
    /\ pc = "scan"
    /\ idx < NumDirs
    /\ idx' = idx + 1
    /\ IF Matches(names[idx + 1])
       THEN /\ found_movies' = found_movies + 1
            /\ IF cfg.imdb
               THEN /\ fontChecks' = fontChecks + 1
                    /\ IF fontPresent
                       THEN pc' = "fetch" /\ UNCHANGED exitStatus
                       ELSE Exit("fatal_font")
               ELSE /\ pc' = "fetch"
                    /\ UNCHANGED <<fontChecks, exitStatus>>
       ELSE UNCHANGED <<found_movies, fontChecks, pc, exitStatus>>
    /\ UNCHANGED <<names, fs, cfg, fontPresent, folder, found_restores, reqs,
                   restored, copyFailed>>

\* main(), after the scan loop
ScanDone ==
    /\ pc = "scan"
    /\ idx = NumDirs
    /\ IF cfg.plexRefresh THEN pc' = "refresh" /\ UNCHANGED exitStatus
                          ELSE Exit("ok")
    /\ UNCHANGED <<names, fs, cfg, fontPresent, idx, folder, counters, reqs>>

(* ---------------------------- acquisition ----------------------------- *)

\* how Image.save(path, "JPEG") ends: written; refused before the file was
\* opened; or failed after the file was opened for writing
SaveOutcomes == {"ok", "open_fail", "write_fail"}

\* Image.save(path, "JPEG", quality=q) on a path holding prev: Pillow opens
\* the path with "w+b" and, when the encoder raises, removes the file if the
\* call created it; a file that was there before stays, truncated
ImageSave(prev, img, q, out) ==
    IF out = "ok" THEN Jpeg(img, q)
    ELSE IF out = "open_fail" THEN prev
    ELSE IF Exists(prev) THEN Partial ELSE Absent

\* how far fetch_poster gets when the cache file is absent
FetchOutcomes ==
    {"meta_fail", "no_poster_path", "download_fail", "decode_fail",
     "mkdir_fail", "resize_fail", "save_open_fail", "save_write_fail", "ok"}

\* the existence test dropped: every call goes on to download
AlreadyCached_Never(f) == FALSE

\* output_file.exists()
AlreadyCached(f) == Exists(f)

\* image.resize(TARGET_SIZE) of the downloaded picture c
Resized(c) == [c |-> c, layers |-> <<>>]

\* the downloaded bytes written to the cache path before they are decoded
\* and resized: a later failure leaves them there
fetch_poster_WritesBeforeDecode(f, out, c) ==
    IF AlreadyCached(f)
    THEN [ok |-> TRUE, file |-> f, catalog |-> FALSE, image |-> FALSE]
    ELSE IF out = "meta_fail" \/ out = "no_poster_path"
    THEN [ok |-> FALSE, file |-> f, catalog |-> TRUE, image |-> FALSE]
    ELSE IF out \in {"download_fail", "mkdir_fail"}
    THEN [ok |-> FALSE, file |-> f, catalog |-> TRUE, image |-> TRUE]
    ELSE [ok |-> out = "ok",
          file |-> ImageSave(f, Resized(c), CACHE_QUALITY, "ok"),
          catalog |-> TRUE, image |-> TRUE]

\* fetch_poster: its result, the cache file it leaves and the requests it
\* issues, for a folder whose cache file is f
fetch_poster(f, out, c) ==
    IF AlreadyCached(f)
    THEN [ok |-> TRUE, file |-> f, catalog |-> FALSE, image |-> FALSE]
    ELSE IF out = "meta_fail" \/ out = "no_poster_path"
    THEN [ok |-> FALSE, file |-> f, catalog |-> TRUE, image |-> FALSE]
    ELSE IF out \in {"download_fail", "decode_fail", "mkdir_fail", "resize_fail"}
    THEN [ok |-> FALSE, file |-> f, catalog |-> TRUE, image |-> TRUE]
    ELSE IF out = "ok"
    THEN [ok |-> TRUE, file |-> ImageSave(f, Resized(c), CACHE_QUALITY, "ok"),
          catalog |-> TRUE, image |-> TRUE]
    ELSE IF out = "save_open_fail"
    THEN [ok |-> FALSE,
          file |-> ImageSave(f, Resized(c), CACHE_QUALITY, "open_fail"),
          catalog |-> TRUE, image |-> TRUE]
    ELSE [ok |-> FALSE,
          file |-> ImageSave(f, Resized(c), CACHE_QUALITY, "write_fail"),
          catalog |-> TRUE, image |-> TRUE]

\* process_movie_folder, step 1
FetchPoster ==
    /\ pc = "fetch"
    /\ \E out \in FetchOutcomes, c \in Contents :
        LET r == fetch_poster(cache[idx], out, c)
        IN  /\ cache' = [cache EXCEPT ![idx] = r.file]
            /\ reqs' = [reqs EXCEPT !.catalog = @ \/ r.catalog,
                                    !.image = @ \/ r.image]
            /\ pc' = IF r.ok THEN "load" ELSE "sleep"
    /\ UNCHANGED <<names, final, cfg, fontPresent, idx, folder, counters,
                   exitStatus>>

(* ---------------------------- compositing ----------------------------- *)

\* the file the base image is loaded from
BaseSource(d) == cache[d]

\* process_movie_folder, step 2
LoadBase ==
    /\ pc = "load"
    /\ \E readable \in BOOLEAN :
        IF readable /\ BaseSource(idx).kind = "jpeg"
        THEN work' = Decode(BaseSource(idx)) /\ pc' = "static"
        ELSE work' = work /\ pc' = "sleep"
    /\ UNCHANGED <<names, fs, cfg, fontPresent, idx, meta, failed, saveState,
                   counters, reqs, exitStatus>>

\* process_movie_folder, step 3
ApplyStatic ==
    /\ pc = "static"
    /\ pc' = "tmdb"
    /\ IF cfg.static
       THEN \E isFile \in BOOLEAN, composed \in BOOLEAN :
            IF ~isFile THEN UNCHANGED <<work, failed>>
            ELSE IF composed
            THEN work' = AlphaComposite(work, StaticLayer) /\ UNCHANGED failed
            ELSE failed' = failed \cup {"static"} /\ UNCHANGED work
       ELSE UNCHANGED <<work, failed>>
    /\ UNCHANGED <<names, fs, cfg, fontPresent, idx, meta, saveState, counters,
                   reqs, exitStatus>>

\* what get_movie_details may return to the rating layer
MetaResults ==
    {[status |-> "error", vote_average |-> 0, vote_count |-> 0]} \cup
    [status : {"data"}, vote_average : VoteAverages, vote_count : VoteCounts]

\* the comparison turned round
BelowThreshold_Inverted(vote_count) == vote_count > MIN_VOTE_COUNT

\* vote_count < MIN_VOTE_COUNT
BelowThreshold(vote_count) == vote_count < MIN_VOTE_COUNT

\* process_movie_folder, step 4
ApplyTmdb ==
    /\ pc = "tmdb"
    /\ pc' = "imdb"
    /\ IF cfg.tmdb
       THEN \E data \in MetaResults, isFile \in BOOLEAN, composed \in BOOLEAN :
            /\ meta' = data
            /\ reqs' = [reqs EXCEPT !.catalog = TRUE]
            /\ IF data.status = "error" THEN UNCHANGED <<work, failed>>
               ELSE IF BelowThreshold(data.vote_count)
               THEN UNCHANGED <<work, failed>>
               ELSE IF ~isFile THEN UNCHANGED <<work, failed>>
               ELSE IF composed
               THEN /\ work' = AlphaComposite(work,
                                    Badge(RatingPercent(data.vote_average)))
                    /\ UNCHANGED failed
               ELSE failed' = failed \cup {"tmdb"} /\ UNCHANGED work
       ELSE UNCHANGED <<work, failed, meta, reqs>>
    /\ UNCHANGED <<names, fs, cfg, fontPresent, idx, saveState, counters,
                   exitStatus>>

\* apply_imdb_rating_overlay: line 114 reads vote_average, a name bound
\* nowhere, so the call raises NameError before it draws anything
apply_imdb_rating_overlay(img) == [raised |-> TRUE, img |-> img]

\* process_movie_folder, step 5: the call is outside any try block
ApplyImdb ==
    /\ pc = "imdb"
    /\ IF cfg.imdb
       THEN LET r == apply_imdb_rating_overlay(work)
            IN  IF r.raised
                THEN /\ failed' = failed \cup {"imdb"}
                     /\ work' = work
                     /\ Exit("uncaught")
                ELSE /\ work' = r.img
                     /\ pc' = "save"
                     /\ UNCHANGED <<failed, exitStatus>>
       ELSE pc' = "save" /\ UNCHANGED <<work, failed, exitStatus>>
    /\ UNCHANGED <<names, fs, cfg, fontPresent, idx, meta, saveState, counters,
                   reqs>>

\* process_movie_folder, step 6
SaveFinal ==
    /\ pc = "save"
    /\ pc' = "sleep"
    /\ \E out \in SaveOutcomes :
        /\ final' = [final EXCEPT ![idx] =
                        ImageSave(@, work, FINAL_QUALITY, out)]
        /\ saveState' = IF out = "ok" THEN "saved" ELSE "failed"
    /\ UNCHANGED <<names, cache, cfg, fontPresent, idx, work, meta, failed,
                   counters, reqs, exitStatus>>

\* main(): time.sleep(0.5) after process_movie_folder returned
Sleep ==
    /\ pc = "sleep"
    /\ pc' = "scan"
    /\ work' = NoImage /\ meta' = NoMeta /\ failed' = {} /\ saveState' = "none"
    /\ UNCHANGED <<names, fs, cfg, fontPresent, idx, counters, reqs,
                   exitStatus>>

(* ------------------------------ restore ------------------------------- *)

\* how shutil.copyfile ends: copied, refused before the target was opened,
\* or failed after the target was opened for writing
CopyOutcomes == {"ok", "open_fail", "write_fail"}

\* the original re-saved through the imaging library instead of copied
CopyFile_Reencoded(source) == Jpeg(Decode(source), FINAL_QUALITY)

\* shutil.copyfile(source, target): the target's bytes after a full copy
CopyFile(source) == source

\* restore_posters, one iteration of its loop
RestoreNext ==
    /\ pc = "restore"
    /\ idx < NumDirs
    /\ idx' = idx + 1
    /\ IF IsCandidate(names[idx + 1]) /\ Exists(cache[idx + 1])
       THEN \E out \in CopyOutcomes :
            IF out = "ok"
            THEN /\ final' = [final EXCEPT ![idx + 1] = CopyFile(cache[idx + 1])]
                 /\ found_restores' = found_restores + 1
                 /\ restored' = restored \cup {idx + 1}
                 /\ UNCHANGED copyFailed
            ELSE /\ final' = [final EXCEPT ![idx + 1] =
                                 IF out = "write_fail" THEN Partial ELSE @]
                 /\ copyFailed' = copyFailed \cup {idx + 1}
                 /\ UNCHANGED <<found_restores, restored>>
       ELSE UNCHANGED <<final, found_restores, restored, copyFailed>>
    /\ UNCHANGED <<names, cache, cfg, fontPresent, pc, folder, found_movies,
                   fontChecks, reqs, exitStatus>>

\* the return of the restore branch missing: main() goes on to the scan
AfterRestore_FallsThrough(c) == IF c.plexRefresh THEN "refresh" ELSE "scan"

\* main(), after restore_posters returned: refresh if enabled, then return
AfterRestore(c) == IF c.plexRefresh THEN "refresh" ELSE "exited"

\* restore_posters, after its loop, and main()'s restore branch
RestoreDone ==
    /\ pc = "restore"
    /\ idx = NumDirs
    /\ pc' = AfterRestore(cfg)
    /\ exitStatus' = IF pc' = "exited" THEN "ok" ELSE exitStatus
    /\ idx' = IF pc' = "scan" THEN 0 ELSE idx
    /\ UNCHANGED <<names, fs, cfg, fontPresent, folder, counters, reqs>>

(* --------------------------- library refresh -------------------------- *)

\* the guard of run_plex_refresh
RefreshConfigured(c) ==
    c.plexRefresh /\ c.plexIp /\ c.plexPort /\ c.plexToken /\ c.plexIds # <<>>

\* the request made outside a try block: the first failure ends the loop
ContinuesAfter_Abort(ok) == ok

\* the try/except inside the loop: the loop goes on to the next section
\* whether the request succeeded (ok) or raised
ContinuesAfter(ok) == TRUE

\* run_plex_refresh's loop from position i: the requests it issues when
\* the request for ids[j] succeeds iff oks[j]
RECURSIVE RefreshFrom(_, _, _)
RefreshFrom(ids, oks, i) ==
    IF i > Len(ids) THEN <<>>
    ELSE << [id |-> ids[i], ok |-> oks[i]] >> \o
         (IF ContinuesAfter(oks[i]) THEN RefreshFrom(ids, oks, i + 1)
                                    ELSE <<>>)

\* run_plex_refresh, called at the end of main()
PlexRefresh ==
    /\ pc = "refresh"
    /\ IF RefreshConfigured(cfg)
       THEN \E oks \in [1..Len(cfg.plexIds) -> BOOLEAN] :
            reqs' = [reqs EXCEPT !.plex = RefreshFrom(cfg.plexIds, oks, 1)]
       ELSE UNCHANGED reqs
    /\ Exit("ok")
    /\ UNCHANGED <<names, fs, cfg, fontPresent, idx, folder, counters>>

(* ---------------------------- specification --------------------------- *)

Next ==
    \/ Launch
    \/ Main
    \/ ScanNext
    \/ ScanDone
    \/ FetchPoster
    \/ LoadBase
    \/ ApplyStatic
    \/ ApplyTmdb
    \/ ApplyImdb
    \/ SaveFinal
    \/ Sleep
    \/ RestoreNext
    \/ RestoreDone
    \/ PlexRefresh

Spec == Init /\ [][Next]_vars

(* ------------------------------- claims ------------------------------- *)

\* the directories of the tree that the scan matches
Matched == {d \in Dirs : Lower(names[d]) # "original" /\ TmdbIdOf(names[d]) # 0}

\* a normal run has ended other than by one of the three fatal checks
NormalRunEnded ==
    /\ pc = "exited"
    /\ ~cfg.restore
    /\ exitStatus \in {"ok", "uncaught"}

\* process_movie_folder has ended for folder idx, by returning or by an
\* exception that left it
FolderEnded == pc = "sleep" \/ (pc = "exited" /\ exitStatus = "uncaught")

\* restore_posters has returned in this run
RestoreFinished ==
    /\ cfg.restore
    /\ pc = "refresh" \/ (pc = "exited" /\ exitStatus = "ok")

HasBadge(img) == \E i \in 1..Len(img.layers) : img.layers[i].asset = "badge"

\* C1: in process_movie_folder, whenever applying one overlay layer fails
\* for a folder whose base image was loaded, the failure is confined to that
\* layer: once the folder's processing has ended, the final save was
\* attempted.  (Stated as claimed; the rendered rating badge breaks it.)
C1_LayerFailureConfined ==
    (FolderEnded /\ work # NoImage /\ failed # {}) => saveState # "none"

\* C2: with the rendered-badge feature enabled the font is tested exactly
\* once per normal run, before the scan yields any directory, however many
\* folders match; and when the font is missing the run ends with the fatal
\* font status without any catalog request.  (Stated as claimed.)
C2_FontCheckedOnceUpFront ==
    /\ fontChecks <= 1
    /\ (NormalRunEnded /\ cfg.imdb) => fontChecks = 1
    /\ (pc = "exited" /\ ~cfg.restore /\ cfg.imdb /\ ~fontPresent
          /\ exitStatus \notin {"none", "fatal_key", "fatal_root"})
        => (exitStatus = "fatal_font" /\ ~reqs.catalog /\ ~reqs.image)

\* C3: a fetch_poster call on a folder whose cache file exists returns
\* success, issues no request and leaves the cache file as it is; and no
\* step of any run changes a cache file that exists.
C3_CachedFetchIsSilent ==
    [][ /\ (pc = "fetch" /\ Exists(cache[idx]))
            => (pc' = "load" /\ reqs' = reqs /\ cache' = cache)
        /\ \A d \in Dirs : Exists(cache[d]) => cache'[d] = cache[d] ]_vars

\* C3 witness: a normal run reached the load step of a matched folder
\* without having issued any request, its cache file written by an earlier run
C3_Witness ==
    /\ pc = "load" /\ ~cfg.restore
    /\ ~reqs.catalog /\ ~reqs.image
    /\ Exists(cache[idx])

\* C4: a fetch_poster call that returns failure leaves no cache file for
\* the folder.
C4_FailedFetchLeavesNoCache ==
    [][ (pc = "fetch" /\ pc' = "sleep") => ~Exists(cache'[idx]) ]_vars

\* C4 witness: acquisition failed after the image was requested, and the
\* folder has no cache file
C4_Witness ==
    /\ pc = "sleep" /\ work = NoImage
    /\ reqs.image
    /\ ~Exists(cache[idx])

\* C5: a normal run that got past the three fatal checks ends with status
\* zero after processing every matched folder.  (Stated as claimed.)
C5_FolderErrorsNeverAbort ==
    NormalRunEnded =>
        (exitStatus = "ok" /\ found_movies = Cardinality(Matched))

\* C6: when the catalog-rating layer is enabled and the fetched vote count
\* is below MIN_VOTE_COUNT, whatever the average rating, the working image
\* carries no catalog badge, the layer records no error, and a final poster
\* saved for the folder is the cached original plus at most the static
\* overlay (and without it when the static overlay is disabled).
C6_BelowThresholdNoBadge ==
    (cfg.tmdb /\ meta.status = "data" /\ meta.vote_count < MIN_VOTE_COUNT) =>
        /\ ~HasBadge(work)
        /\ "tmdb" \notin failed
        /\ saveState = "saved" =>
              /\ final[idx].kind = "jpeg"
              /\ final[idx].q = FINAL_QUALITY
              /\ final[idx].c = cache[idx].c
              /\ final[idx].layers \in {<<>>, <<StaticLayer>>}
              /\ ~cfg.static => final[idx].layers = <<>>

\* C6 witness: the vote count was below the threshold, the static overlay
\* was applied and the final poster was saved
C6_Witness ==
    /\ cfg.tmdb /\ meta.status = "data" /\ meta.vote_count < MIN_VOTE_COUNT
    /\ saveState = "saved"
    /\ final[idx].layers = <<StaticLayer>>

\* C7 as claimed: after restore_posters every directory whose name is not
\* the cache-folder name and that has a cached original has a final poster
\* identical to it, and the count is the number of restored directories.
C7_RestoreCopiesEveryCachedOriginal ==
    RestoreFinished =>
        /\ \A d \in Dirs :
              (names[d] # ORIGINAL_FOLDER_NAME /\ Exists(cache[d]))
                  => final[d] = cache[d]
        /\ found_restores = Cardinality(restored)

\* C7 amended: after restore_posters every directory whose name differs
\* from the cache-folder name when lower-cased and that has a cached
\* original was either copied, and then its final poster is identical to
\* the cached original, or its copy raised, and then it is not counted; no
\* other directory is copied or counted; the count is the number of copied
\* directories; and a step that skips a directory leaves every final
\* poster unchanged.
C7_RestoreCopiesWhatItCounts ==
    /\ [](RestoreFinished =>
            /\ \A d \in Dirs :
                  IF Lower(names[d]) # "original" /\ Exists(cache[d])
                  THEN d \in restored \cup copyFailed
                  ELSE d \notin restored \cup copyFailed
            /\ \A d \in restored : final[d] = cache[d]
            /\ restored \cap copyFailed = {}
            /\ found_restores = Cardinality(restored))
    /\ [][ (pc = "restore" /\ idx < NumDirs
            /\ ~(Lower(names[idx + 1]) # "original" /\ Exists(cache[idx + 1])))
           => final' = final ]_vars

\* C7 witness: a restore finished with one directory copied, one whose copy
\* raised, or one skipped for want of a cached original
C7_Witness ==
    /\ RestoreFinished
    /\ restored # {}
    /\ \E d \in Dirs : d \notin restored

\* C8 as claimed: a restore-mode run issues no network request at all.
C8_RestoreRunIssuesNoRequest ==
    cfg.restore => (~reqs.catalog /\ ~reqs.image /\ reqs.plex = <<>>)

\* C8 amended: a restore-mode run issues no catalog request and no image
\* download, never enters the scan, acquisition or compositing steps and
\* holds no working image; the only requests it issues are the refresh
\* requests of run_plex_refresh, and only when the refresh is enabled.
C8_RestoreRunOnlyRefreshes ==
    cfg.restore =>
        /\ ~reqs.catalog /\ ~reqs.image
        /\ pc \in {"main", "restore", "refresh", "exited"}
        /\ work = NoImage /\ found_movies = 0
        /\ reqs.plex # <<>> => cfg.plexRefresh

\* C8 witness: a restore-mode run restored a poster and then issued a
\* refresh request
C8_Witness ==
    /\ cfg.restore /\ pc = "exited" /\ exitStatus = "ok"
    /\ found_restores > 0
    /\ reqs.plex # <<>>

\* C9: refresh requests are issued only when the refresh is enabled and
\* host, port, token and at least one section id are configured; and a run
\* that ends normally with all of them configured has issued exactly one
\* request per configured section id, in order, whichever of them failed.
C9_RefreshRequests ==
    /\ reqs.plex # <<>> =>
          (cfg.plexRefresh /\ cfg.plexIp /\ cfg.plexPort /\ cfg.plexToken
           /\ cfg.plexIds # <<>>)
    /\ (pc = "exited" /\ exitStatus = "ok"
          /\ cfg.plexRefresh /\ cfg.plexIp /\ cfg.plexPort /\ cfg.plexToken)
        => /\ Len(reqs.plex) = Len(cfg.plexIds)
           /\ \A i \in 1..Len(cfg.plexIds) : reqs.plex[i].id = cfg.plexIds[i]

\* C9 witness: the request for the first section failed and the request
\* for the second was still issued
C9_Witness ==
    /\ pc = "exited" /\ exitStatus = "ok"
    /\ Len(reqs.plex) = 2
    /\ ~reqs.plex[1].ok

\* C10: once process_movie_folder has ended for a folder whose cached
\* original was loaded, and the final save did not fail, the final poster is
\* the encoding of the cached original with the layers composited in this
\* run, whatever poster.jpg held before.  (Stated as claimed; the rendered
\* rating badge breaks it.)
C10_FinalRecomputedFromCache ==
    (FolderEnded /\ work # NoImage /\ saveState # "failed") =>
        final[idx] = Jpeg([c |-> cache[idx].c, layers |-> work.layers],
                          FINAL_QUALITY)

====
